---- MODULE Spec2Model ----
(***************************************************************************)
(* Passport (src/contracts/src/passport/Passport.sol): a controller-gated  *)
(* ERC721 credential.  The ledger is the contract's storage; every public  *)
(* entry point is one action.  A call that reverts leaves storage as it    *)
(* was and is recorded, with its revert reason, in `last`.  The safe       *)
(* variants call the recipient's onERC721Received hook in the middle of    *)
(* the call: that moment is a state of its own (`pending`), in which       *)
(* contracts may call back into the Passport.                              *)
(***************************************************************************)
EXTENDS Integers, FiniteSets, Sequences, TLC

\* ------------------------------------------------------------------ bounds
\* Ids 0 .. MaxId-1 can be minted and addressed by calls.
MaxId == 2
\* block.timestamp ranges over 1 .. MaxTime.
MaxTime == 2
\* A receiver hook makes at most this many state-changing calls back into the Passport.
MaxNested == 1
\* uint256 is scaled down to WordBits bits; unchecked arithmetic wraps at 2^WordBits.
WordBits == 2
\* The foreign ERC20 amounts sent to and recovered from the contract: 0 .. MaxAmount.
MaxAmount == 2
\* $NATION and $veNATION balances shown by the pages: 0 .. MaxBalance whole tokens.
MaxBalance == 3
\* lib/config's veNationRequiredStake, in whole tokens.
veNationRequiredStake == 2

Mod == 2 ^ WordBits

\* --------------------------------------------------------------- addresses
Zero == "0x0"
Deployer == "deployer"
Holder == "holder"
Receiver == "receiver"
\* Accounts that can be msg.sender or recipient; Zero is address(0).
Accounts == {Deployer, Holder, Receiver}
Address == {Zero} \cup Accounts
\* Addresses with code (to.code.length != 0): they get the onERC721Received hook,
\* and only they can be msg.sender of a call made inside another call.
Contracts == {Receiver}
Ids == 0 .. (MaxId - 1)
\* The arguments the calls are tried with.
Recipients == {Zero, Holder, Receiver}
Spenders == {Receiver}
Operators == {Receiver}
\* The accounts that approve an operator (Deployer holds no token in this model).
Approvers == {Holder}

Controllers == {Deployer, Receiver}
Renderers == {Receiver}

VARIABLES
    _ownerOf,          \* ERC721 storage: id -> owner, Zero when not owned
    _balanceOf,        \* ERC721 storage: address -> number of tokens
    getApproved,       \* ERC721 storage: id -> per-token approved address
    isApprovedForAll,  \* ERC721 storage: set of <<holder, operator>>
    _supply,           \* Passport._supply
    _idTracker,        \* Passport._idTracker
    timestamps,        \* Passport.timestamps
    renderer,          \* Passport.renderer
    owner,             \* Controlled: the contract owner
    controller,        \* Controlled: the controller
    now,               \* block.timestamp
    erc20Held,         \* a foreign ERC20: its balance of the Passport contract
    page,              \* the web page open in the browser, with its React state
    pending,           \* the safe call whose receiver hook is running, if any
    last,              \* the last call that returned or reverted
    mintedIds          \* history: the ids mint and safeMint have returned

ledgerVars == <<_ownerOf, _balanceOf, getApproved, isApprovedForAll, _supply,
                _idTracker, timestamps, renderer, owner, controller>>
vars == <<_ownerOf, _balanceOf, getApproved, isApprovedForAll, _supply,
          _idTracker, timestamps, renderer, owner, controller, now, erc20Held, page,
          pending, last, mintedIds>>

\* The whole storage as one value: what a revert restores.
Ledger ==
    [ownerOf |-> _ownerOf, balanceOf |-> _balanceOf, approved |-> getApproved,
     operators |-> isApprovedForAll, supply |-> _supply, idTracker |-> _idTracker,
     timestamps |-> timestamps, renderer |-> renderer, owner |-> owner,
     controller |-> controller]

NoPending == [op |-> "none"]

Call(op, sender, from, to, id, err, ret) ==
    [op |-> op, sender |-> sender, from |-> from, to |-> to, id |-> id,
     err |-> err, ret |-> ret]

\* ----------------------------------------------------------- access roles
onlyController(sender) == sender = controller

onlyOwner(sender) == sender = owner

\* No receiver hook is running: the call is a transaction of its own.
TopLevel == pending.op = "none"

\* msg.sender of a call: any account at the top level, a contract inside a hook.
Senders == IF pending.op = "none" THEN Accounts ELSE Contracts

\* ------------------------------------------------------------- ERC721 views
ownerOfErr(id) == IF _ownerOf[id] = Zero THEN "NOT_MINTED" ELSE "none"

totalSupply == _supply

getNextId == _idTracker

\* unchecked { x++ } and unchecked { x-- }
uncheckedInc(x) == (x + 1) % Mod

uncheckedDec(x) == (x + Mod - 1) % Mod

\* A call that changes storage: inside a receiver hook it counts against MaxNested.
Nest ==
    IF pending.op = "none" THEN pending' = pending
    ELSE /\ pending.n < MaxNested
         /\ pending' = [pending EXCEPT !.n = @ + 1]

\* ---------------------------------------------------------------- reverts
Revert(op, sender, from, to, id, err) ==
    /\ last' = Call(op, sender, Zero, Zero, 0, err, 0)
    /\ UNCHANGED <<ledgerVars, now, erc20Held, page, pending, mintedIds>>

\* The contract as the constructor leaves it, line 66.
Deployed ==
    /\ _ownerOf = [i \in Ids |-> Zero]
    /\ _balanceOf = [a \in Address |-> 0]
    /\ getApproved = [i \in Ids |-> Zero]
    /\ isApprovedForAll = {}
    /\ _supply = 0
    /\ _idTracker = 0
    /\ timestamps = [i \in Ids |-> 0]
    /\ renderer = Zero
    /\ owner = Deployer
    /\ controller = Deployer
    /\ now = 1
    /\ erc20Held = 0
    /\ pending = NoPending
    /\ last = Call("constructor", Deployer, Zero, Zero, 0, "none", 0)
    /\ mintedIds = {}

\* No page is open.
NoPage == [name |-> "none"]

Init == Deployed /\ page = NoPage

\* ------------------------------------------------------------ transferFrom
\* Mutant: the onlyController modifier of line 82 left out.
transferFromErr_noGate(sender, from, to, id) ==
    IF from # _ownerOf[id] THEN "InvalidFrom"
    ELSE IF to = Zero THEN "TargetIsZeroAddress"
    ELSE IF /\ sender # from
            /\ <<from, sender>> \notin isApprovedForAll
            /\ sender # getApproved[id]
            /\ sender # controller
         THEN "CallerIsNotAuthorized"
    ELSE "none"

\* Mutant: line 89 left out, the controller needs an approval like anyone else.
transferFromErr_noControllerPass(sender, from, to, id) ==
    IF ~onlyController(sender) THEN "CallerIsNotAuthorized"
    ELSE IF from # _ownerOf[id] THEN "InvalidFrom"
    ELSE IF to = Zero THEN "TargetIsZeroAddress"
    ELSE IF /\ sender # from
            /\ <<from, sender>> \notin isApprovedForAll
            /\ sender # getApproved[id]
         THEN "CallerIsNotAuthorized"
    ELSE "none"

transferFromErr(sender, from, to, id) ==
    IF ~onlyController(sender) THEN "CallerIsNotAuthorized"
    ELSE IF from # _ownerOf[id] THEN "InvalidFrom"
    ELSE IF to = Zero THEN "TargetIsZeroAddress"
    ELSE IF /\ sender # from
            /\ <<from, sender>> \notin isApprovedForAll
            /\ sender # getApproved[id]
            /\ sender # controller
         THEN "CallerIsNotAuthorized"
    ELSE "none"

\* The storage writes of transferFrom, lines 92-99.
transferEffects(from, to, id) ==
    /\ _balanceOf' = [a \in Address |->
            IF a = from /\ a = to THEN _balanceOf[a]
            ELSE IF a = from THEN uncheckedDec(_balanceOf[a])
            ELSE IF a = to THEN uncheckedInc(_balanceOf[a])
            ELSE _balanceOf[a]]
    /\ _ownerOf' = [_ownerOf EXCEPT ![id] = to]
    /\ getApproved' = [getApproved EXCEPT ![id] = Zero]
    /\ UNCHANGED <<isApprovedForAll, _supply, _idTracker, timestamps, renderer,
                   owner, controller>>

transferFrom(sender, from, to, id) ==
    LET err == transferFromErr(sender, from, to, id) IN
    IF err # "none" THEN Revert("transferFrom", sender, from, to, id, err)
    ELSE /\ transferEffects(from, to, id)
         /\ last' = Call("transferFrom", sender, from, to, id, "none", 0)
         /\ Nest
         /\ UNCHANGED <<now, erc20Held, page, mintedIds>>

\* The two safeTransferFrom overloads, lines 108-127, have one body (`data` is
\* only handed on to the hook): the gate, then ERC721's safeTransferFrom, which
\* runs transferFrom (the override above, same msg.sender) and then asks a
\* recipient with code to accept.
safeTransferFromErr(sender, from, to, id) ==
    IF ~onlyController(sender) THEN "CallerIsNotAuthorized"
    ELSE transferFromErr(sender, from, to, id)

safeTransferFrom(sender, from, to, id, data) ==
    LET err == safeTransferFromErr(sender, from, to, id) IN
    /\ pending.op = "none"
    /\ IF err # "none" THEN Revert("safeTransferFrom", sender, from, to, id, err)
       ELSE /\ transferEffects(from, to, id)
            /\ UNCHANGED <<now, erc20Held, page, mintedIds>>
            /\ IF to \in Contracts
               THEN /\ pending' = [op |-> "safeTransferFrom", sender |-> sender,
                                   from |-> from, to |-> to, id |-> id, n |-> 0,
                                   snap |-> Ledger, minted |-> mintedIds]
                    /\ last' = Call("onERC721Received", sender, from, to, id, "none", 0)
               ELSE /\ pending' = pending
                    /\ last' = Call("safeTransferFrom", sender, from, to, id, "none", 0)

\* ------------------------------------------------------------ mint, safeMint
\* onlyController, then ERC721._mint's two requires on (to, _idTracker).
mintErr(sender, to) ==
    IF ~onlyController(sender) THEN "CallerIsNotAuthorized"
    ELSE IF to = Zero THEN "INVALID_RECIPIENT"
    ELSE IF _ownerOf[_idTracker] # Zero THEN "ALREADY_MINTED"
    ELSE "none"

\* ERC721._mint(to, id): unchecked { _balanceOf[to]++ }; _ownerOf[id] = to.
_mintEffects(to, id) ==
    /\ _balanceOf' = [_balanceOf EXCEPT ![to] = uncheckedInc(@)]
    /\ _ownerOf' = [_ownerOf EXCEPT ![id] = to]

\* Mutant: mint forgets to advance the id tracker.
mintIdTracker_stuck == _idTracker

mintIdTracker == uncheckedInc(_idTracker)

mintSupply == uncheckedInc(_supply)

mint(sender, to) ==
    LET err == mintErr(sender, to) IN
    /\ _idTracker < MaxId
    /\ IF err # "none" THEN Revert("mint", sender, Zero, to, _idTracker, err)
       ELSE /\ _mintEffects(to, _idTracker)
            /\ UNCHANGED timestamps
            /\ _idTracker' = mintIdTracker
            /\ _supply' = mintSupply
            /\ last' = Call("mint", sender, Zero, to, _idTracker, "none", _idTracker)
            /\ mintedIds' = mintedIds \cup {_idTracker}
            /\ Nest
            /\ UNCHANGED <<getApproved, isApprovedForAll, renderer, owner, controller, now,
                           erc20Held, page>>

\* safeMint's counters are checked arithmetic, lines 150-151: overflow panics.
safeMintCountersErr == IF _idTracker + 1 >= Mod \/ _supply + 1 >= Mod THEN "Panic" ELSE "none"

\* safeMint up to the receiver hook: _safeMint(to, _idTracker) has written the
\* owner and the balance; lines 148-151 have not run yet.
safeMint(sender, to) ==
    LET err == mintErr(sender, to) IN
    /\ pending.op = "none"
    /\ _idTracker < MaxId
    /\ IF err # "none" THEN Revert("safeMint", sender, Zero, to, _idTracker, err)
       ELSE IF to \in Contracts
       THEN /\ _mintEffects(to, _idTracker)
            /\ pending' = [op |-> "safeMint", sender |-> sender, from |-> Zero,
                           to |-> to, id |-> _idTracker, n |-> 0, snap |-> Ledger,
                           minted |-> mintedIds]
            /\ last' = Call("onERC721Received", sender, Zero, to, _idTracker, "none", 0)
            /\ UNCHANGED <<getApproved, isApprovedForAll, _supply, _idTracker,
                           timestamps, renderer, owner, controller, now,
                           erc20Held, page, mintedIds>>
       ELSE IF safeMintCountersErr # "none"
       THEN Revert("safeMint", sender, Zero, to, _idTracker, safeMintCountersErr)
       ELSE /\ _mintEffects(to, _idTracker)
            /\ UNCHANGED timestamps
            /\ _idTracker' = _idTracker + 1
            /\ _supply' = _supply + 1
            /\ last' = Call("safeMint", sender, Zero, to, _idTracker, "none", _idTracker)
            /\ mintedIds' = mintedIds \cup {_idTracker}
            /\ UNCHANGED <<getApproved, isApprovedForAll, renderer, owner, controller,
                           now, erc20Held, page, pending>>

\* Mutant: a refused hook makes the safe call return early instead of reverting.
RevertPending_returnsEarly(err) ==
    /\ last' = Call(pending.op, pending.sender, Zero, Zero, 0, err, 0)
    /\ pending' = NoPending
    /\ UNCHANGED <<ledgerVars, now, erc20Held, page, mintedIds>>

\* A revert of the outer safe call: storage goes back to what it was at its start.
RevertPending(err) ==
    /\ _ownerOf' = pending.snap.ownerOf
    /\ _balanceOf' = pending.snap.balanceOf
    /\ getApproved' = pending.snap.approved
    /\ isApprovedForAll' = pending.snap.operators
    /\ _supply' = pending.snap.supply
    /\ _idTracker' = pending.snap.idTracker
    /\ timestamps' = pending.snap.timestamps
    /\ renderer' = pending.snap.renderer
    /\ owner' = pending.snap.owner
    /\ controller' = pending.snap.controller
    /\ last' = Call(pending.op, pending.sender, Zero, Zero, 0, err, 0)
    /\ pending' = NoPending
    /\ mintedIds' = pending.minted
    /\ UNCHANGED <<now, erc20Held, page>>

\* The receiver hook returns: a wrong selector or a throw reverts the safe call;
\* otherwise safeTransferFrom is done and safeMint runs lines 148-151.
onERC721Received(accept) ==
    /\ pending.op # "none"
    /\ IF ~accept THEN RevertPending("UNSAFE_RECIPIENT")
       ELSE IF pending.op = "safeMint"
       THEN IF safeMintCountersErr # "none"
            THEN RevertPending("Panic")
            ELSE /\ UNCHANGED timestamps
                 /\ _idTracker' = _idTracker + 1
                 /\ _supply' = _supply + 1
                 /\ last' = Call("safeMint", pending.sender, Zero, pending.to, pending.id,
                                 "none", _idTracker)
                 /\ pending' = NoPending
                 /\ mintedIds' = mintedIds \cup {_idTracker}
                 /\ UNCHANGED <<_ownerOf, _balanceOf, getApproved, isApprovedForAll,
                                renderer, owner, controller, now,
                                erc20Held, page>>
       ELSE /\ last' = Call(pending.op, pending.sender, pending.from, pending.to,
                            pending.id, "none", 0)
            /\ pending' = NoPending
            /\ UNCHANGED <<ledgerVars, now, erc20Held, page, mintedIds>>

\* -------------------------------------------------------------------- burn
\* Mutant: burn without the onlyController modifier.
burnErr_noGate(sender, id) ==
    IF _ownerOf[id] = Zero THEN "NOT_MINTED" ELSE "none"

\* onlyController, then ERC721._burn's require.
burnErr(sender, id) ==
    IF ~onlyController(sender) THEN "CallerIsNotAuthorized"
    ELSE IF _ownerOf[id] = Zero THEN "NOT_MINTED"
    ELSE "none"

burnSupply == uncheckedDec(_supply)

burn(sender, id) ==
    LET err == burnErr(sender, id) IN
    IF err # "none" THEN Revert("burn", sender, Zero, Zero, id, err)
    ELSE /\ _balanceOf' = [_balanceOf EXCEPT ![_ownerOf[id]] = uncheckedDec(@)]
         /\ _ownerOf' = [_ownerOf EXCEPT ![id] = Zero]
         /\ getApproved' = [getApproved EXCEPT ![id] = Zero]
         /\ _supply' = burnSupply
         /\ last' = Call("burn", sender, _ownerOf[id], Zero, id, "none", 0)
         /\ Nest
         /\ UNCHANGED <<isApprovedForAll, _idTracker, timestamps, renderer, owner,
                        controller, now, erc20Held, page, mintedIds>>

\* ------------------------------------------------- approvals (ERC721 base)
approveErr(sender, id) ==
    IF sender = _ownerOf[id] \/ <<_ownerOf[id], sender>> \in isApprovedForAll
    THEN "none" ELSE "NOT_AUTHORIZED"

approve(sender, spender, id) ==
    LET err == approveErr(sender, id) IN
    IF err # "none" THEN Revert("approve", sender, Zero, spender, id, err)
    ELSE /\ getApproved' = [getApproved EXCEPT ![id] = spender]
         /\ last' = Call("approve", sender, Zero, spender, id, "none", 0)
         /\ Nest
         /\ UNCHANGED <<_ownerOf, _balanceOf, isApprovedForAll, _supply, _idTracker,
                        timestamps, renderer, owner, controller, now,
                        erc20Held, page, mintedIds>>

setApprovalForAll(sender, operator, approved) ==
    LET next == IF approved THEN isApprovedForAll \cup {<<sender, operator>>}
                ELSE isApprovedForAll \ {<<sender, operator>>} IN
    /\ isApprovedForAll' = next
    /\ last' = Call("setApprovalForAll", sender, Zero, operator, 0, "none", 0)
    /\ Nest
    /\ UNCHANGED <<_ownerOf, _balanceOf, getApproved, _supply, _idTracker,
                   timestamps, renderer, owner, controller, now,
                   erc20Held, page, mintedIds>>

\* ------------------------------------------------------------------- views
ownerOf(id) ==
    /\ last' = Call("ownerOf", Zero, Zero, Zero, id, ownerOfErr(id),
                    IF ownerOfErr(id) = "none" THEN _ownerOf[id] ELSE 0)
    /\ UNCHANGED <<ledgerVars, now, erc20Held, page, pending, mintedIds>>

\* tokenURI, lines 53-59: ownerOf(id) reverts for an unowned id; a renderer
\* without code makes the external call revert; else the renderer is handed
\* (id, ownerOf(id), timestamps[id]).
tokenURIErr(id) ==
    IF ownerOfErr(id) # "none" THEN ownerOfErr(id)
    ELSE IF renderer \notin Contracts THEN "NoCode"
    ELSE "none"

tokenURIArgs(id) == <<id, _ownerOf[id], timestamps[id]>>

tokenURI(id) ==
    /\ last' = Call("tokenURI", Zero, Zero, Zero, id, tokenURIErr(id),
                    IF tokenURIErr(id) = "none" THEN tokenURIArgs(id) ELSE 0)
    /\ UNCHANGED <<ledgerVars, now, erc20Held, page, pending, mintedIds>>

\* ----------------------------------------------------------- owner actions
setRendererErr(sender) == IF onlyOwner(sender) THEN "none" ELSE "CallerIsNotAuthorized"

setRenderer(sender, r) ==
    LET err == setRendererErr(sender) IN
    IF err # "none" THEN Revert("setRenderer", sender, Zero, r, 0, err)
    ELSE /\ renderer' = r
         /\ last' = Call("setRenderer", sender, Zero, r, 0, "none", 0)
         /\ Nest
         /\ UNCHANGED <<_ownerOf, _balanceOf, getApproved, isApprovedForAll, _supply,
                        _idTracker, timestamps, owner, controller, now,
                        erc20Held, page, mintedIds>>

\* Controlled's owner-only setter of the controller.
setController(sender, c) ==
    IF ~onlyOwner(sender) THEN Revert("setController", sender, Zero, c, 0, "CallerIsNotAuthorized")
    ELSE /\ controller' = c
         /\ last' = Call("setController", sender, Zero, c, 0, "none", 0)
         /\ Nest
         /\ UNCHANGED <<_ownerOf, _balanceOf, getApproved, isApprovedForAll, _supply,
                        _idTracker, timestamps, renderer, owner, now,
                        erc20Held, page, mintedIds>>

\* A later block: block.timestamp grows between transactions, never inside one.
Tick ==
    /\ pending.op = "none"
    /\ now < MaxTime
    /\ now' = now + 1
    /\ last' = Call("block", Zero, Zero, Zero, 0, "none", 0)
    /\ UNCHANGED <<ledgerVars, erc20Held, page, pending, mintedIds>>

\* ---------------------------------------------------------- recoverTokens
\* Someone sends the foreign ERC20 to the Passport contract (line 175).
erc20Sent(amount) ==
    /\ pending.op = "none"
    /\ erc20Held + amount <= MaxAmount
    /\ erc20Held' = erc20Held + amount
    /\ last' = Call("erc20.transfer", Zero, Zero, Zero, 0, "none", amount)
    /\ UNCHANGED <<ledgerVars, now, page, pending, mintedIds>>

\* Mutant: recoverTokens gated by onlyController instead of onlyOwner.
recoverTokensErr_controllerGate(sender, amount) ==
    IF ~onlyController(sender) THEN "CallerIsNotAuthorized"
    ELSE IF amount > erc20Held THEN "TRANSFER_FAILED"
    ELSE "none"

\* onlyOwner, then token.safeTransfer(to, amount), which reverts when the
\* token's transfer fails: the Passport holds less than amount.
recoverTokensErr(sender, amount) ==
    IF ~onlyOwner(sender) THEN "CallerIsNotAuthorized"
    ELSE IF amount > erc20Held THEN "TRANSFER_FAILED"
    ELSE "none"

recoverTokens(sender, amount, to) ==
    LET err == recoverTokensErr(sender, amount) IN
    IF err # "none" THEN Revert("recoverTokens", sender, Zero, to, 0, err)
    ELSE /\ erc20Held' = erc20Held - amount
         /\ last' = Call("recoverTokens", sender, Zero, to, 0, "none", amount)
         /\ UNCHANGED <<ledgerVars, now, page, pending, mintedIds>>

\* The credential ledger: every call that reads or writes ownership, approvals,
\* the counters or the roles.
Next ==
    \/ \E s \in Senders, f \in Recipients, t \in Recipients, i \in Ids :
            transferFrom(s, f, t, i)
    \/ \E s \in Senders, f \in Recipients, t \in Recipients, i \in Ids, d \in BOOLEAN :
            safeTransferFrom(s, f, t, i, d)
    \/ \E s \in Senders, t \in Recipients : mint(s, t)
    \/ \E s \in Senders, t \in Recipients : safeMint(s, t)
    \/ \E accept \in BOOLEAN : onERC721Received(accept)
    \/ \E s \in Senders, i \in Ids : burn(s, i)
    \/ \E s \in Accounts, a \in Spenders, i \in Ids : TopLevel /\ approve(s, a, i)
    \/ \E s \in Approvers, o \in Operators, b \in BOOLEAN :
            TopLevel /\ setApprovalForAll(s, o, b)
    \/ \E i \in Ids : ownerOf(i)
    \/ \E s \in Accounts, c \in Controllers : TopLevel /\ setController(s, c)

Spec == Init /\ [][Next]_vars

\* The metadata side: block time, the renderer and tokenURI, over minted,
\* transferred and burned tokens.
NextMeta ==
    \/ \E s \in Senders, f \in Recipients, t \in Recipients, i \in Ids :
            transferFrom(s, f, t, i)
    \/ \E s \in Senders, t \in Recipients : mint(s, t)
    \/ \E s \in Senders, t \in Recipients : safeMint(s, t)
    \/ \E accept \in BOOLEAN : onERC721Received(accept)
    \/ \E s \in Senders, i \in Ids : burn(s, i)
    \/ \E i \in Ids : tokenURI(i)
    \/ \E s \in Accounts, r \in Renderers : TopLevel /\ setRenderer(s, r)
    \/ Tick

SpecMeta == Init /\ [][NextMeta]_vars

\* The owner's side: the renderer, the recovery of foreign tokens and the
\* controller role, over a ledger with minted, approved and burned tokens.
NextAdmin ==
    \/ \E s \in Senders, t \in Recipients : mint(s, t)
    \/ \E s \in Senders, i \in Ids : burn(s, i)
    \/ \E s \in Accounts, a \in Spenders, i \in Ids : TopLevel /\ approve(s, a, i)
    \/ \E s \in Accounts, c \in Controllers : TopLevel /\ setController(s, c)
    \/ \E s \in Accounts, r \in Renderers : TopLevel /\ setRenderer(s, r)
    \/ \E s \in Accounts, a \in 0 .. MaxAmount, t \in Recipients :
            TopLevel /\ recoverTokens(s, a, t)
    \/ \E a \in 1 .. MaxAmount : erc20Sent(a)

SpecAdmin == Init /\ [][NextAdmin]_vars

\* ============================================================ the Join page
\* Join, lines 211-402 of Passport.sol.  `page` holds what the hooks have
\* delivered (nothing until a balance has loaded) and the `action` state.
\* `action` starts as two transformNumber(0, NumberType.bignumber) values,
\* lines 268-271; lib/numbers is not part of the sources, so whether that value
\* is truthy is either way (`zeroIsTruthy`).
chainVars == <<ledgerVars, now, erc20Held, pending, last, mintedIds>>

Balances == 0 .. MaxBalance

InitJoin ==
    /\ Deployed
    /\ \E z \in BOOLEAN :
        page = [name |-> "join", nationLoaded |-> FALSE, nationBalance |-> 0,
                veNationLoaded |-> FALSE, veNationBalance |-> 0,
                hasPassport |-> FALSE,
                action |-> [mint |-> "zero", lockAndMint |-> "zero"],
                zeroIsTruthy |-> z]

\* Line 282: mint: true (the comparison with veNationRequiredStake, lines 276-281,
\* is commented out).
setActionMint(p) == "true"

\* Lines 283-290: nationBalance.value * 4 >= veNationRequiredStake / 4.
setActionLockAndMint(p) ==
    IF p.nationBalance * 4 * 4 >= veNationRequiredStake THEN "true" ELSE "false"

\* The effect of lines 273-297, which runs after every render in which a
\* balance has changed: p is the page state of that render.
setAction(p) ==
    IF ~p.nationLoaded \/ ~p.veNationLoaded THEN p
    ELSE [p EXCEPT !.action = [mint |-> setActionMint(p),
                               lockAndMint |-> setActionLockAndMint(p)]]

\* useNationBalance, useVeNationBalance and useHasPassport deliver a value, the
\* first or a later one; a new balance re-renders and runs the effect.
nationBalanceLoaded(v) ==
    /\ page.name = "join"
    /\ page' = setAction([page EXCEPT !.nationLoaded = TRUE, !.nationBalance = v])
    /\ UNCHANGED chainVars

veNationBalanceLoaded(v) ==
    /\ page.name = "join"
    /\ page' = setAction([page EXCEPT !.veNationLoaded = TRUE,
                                      !.veNationBalance = v])
    /\ UNCHANGED chainVars

hasPassportLoaded(b) ==
    /\ page.name = "join"
    /\ page' = [page EXCEPT !.hasPassport = b]
    /\ UNCHANGED chainVars

\* JavaScript truthiness of a field of `action`.
truthy(x) == x = "true" \/ (x = "zero" /\ page.zeroIsTruthy)

\* What the render of lines 317-398 offers: Claim, Lock $NATION or Buy $NATION,
\* and nothing once the account has a passport.
JoinOffered ==
    IF page.hasPassport THEN "none"
    ELSE IF truthy(page.action.mint) THEN "Claim"
    ELSE IF truthy(page.action.lockAndMint) THEN "Lock"
    ELSE "Buy"

NextJoin ==
    \/ \E v \in Balances : nationBalanceLoaded(v)
    \/ \E v \in Balances : veNationBalanceLoaded(v)
    \/ \E b \in BOOLEAN : hasPassportLoaded(b)

SpecJoin == InitJoin /\ [][NextJoin]_vars

\* ============================================================ the lock page
\* Lock, lines 78-457 of ui/pages/lock.tsx.  Times on chain are in seconds,
\* Date values on the page in milliseconds, a thousand to the second; the
\* clock of the model ticks once a day, so its second is a day long, and `now`
\* counts weeks.
weekSeconds == 7 * 1

dayMs == 1 * 1000

nowMs == now * weekSeconds * 1000

\* The lock records (amount, end) the chain can hold: none, or an amount locked
\* until the end of some week.
LockRecords ==
    {<<0, 0>>} \cup
    {<<a, e * weekSeconds>> : a \in 1 .. MaxBalance, e \in 1 .. MaxTime + 1}

\* The dates the date input can be set to, in days.
Dates == UNION {{7 * w, 7 * w + 1, 7 * w + 7} : w \in 1 .. MaxTime + 1}

\* The state of the first render: line 91 (hasLock), line 96 (hasExpired),
\* line 106 (lockAmount), lines 108-112 (lockTime, one week out), line 117
\* (canIncrease).  chainLock is the record of the account on chain, which
\* useVeNationLock (not part of the sources) has yet to deliver.
InitLock ==
    /\ Deployed
    /\ \E r \in LockRecords :
        page = [name |-> "lock", chainLock |-> r,
                veNationLockLoading |-> TRUE, veNationLock |-> <<>>, ref |-> 0,
                hasLock |-> "undefined", hasExpired |-> "undefined",
                lockAmount |-> <<>>,
                lockTime |-> nowMs + 7 * dayMs, lockTimeOrig |-> <<>>,
                canIncrease |-> [amount |-> TRUE, time |-> TRUE]]

\* Lines 92-94: !veNationLockLoading && setHasLock(veNationLock &&
\* veNationLock[0] != 0).
setHasLock(c) ==
    IF c.veNationLock = <<>> THEN "undefined"
    ELSE IF c.veNationLock[1] # 0 THEN "true" ELSE "false"

\* Lines 97-104: setHasExpired(veNationLock && veNationLock[1] != 0 &&
\* BigNumber.from(+new Date()).gte(veNationLock[1].mul(1000))).
setHasExpired(c) ==
    IF c.veNationLock = <<>> THEN "undefined"
    ELSE IF c.veNationLock[2] # 0 /\ nowMs >= c.veNationLock[2] * 1000
         THEN "true" ELSE "false"

\* Line 122: !lockAmount && setLockAmount(formatEther(veNationLock[0])).
setLockAmount(c) ==
    IF c.lockAmount = <<>> THEN <<c.veNationLock[1]>> ELSE c.lockAmount

\* Lines 123-131: lockTime.value becomes veNationLock[1], a count of seconds,
\* and lockTime.orig remembers it.
setLockTime(c) == c.veNationLock[2]

\* The same with an entered amount that need not exceed the locked one.
setCanIncrease_orEqual(c) ==
    [amount |-> c.lockAmount # <<>> /\ c.lockAmount[1] >= c.veNationLock[1],
     time   |-> c.lockTime > c.veNationLock[2] * 1000 + 7 * dayMs]

\* Lines 143-151: amount when the entered amount exceeds the locked one, time
\* when the entered time exceeds the lock's end plus seven days (line 149).
setCanIncrease(c) ==
    [amount |-> c.lockAmount # <<>> /\ c.lockAmount[1] > c.veNationLock[1],
     time   |-> c.lockTime > c.veNationLock[2] * 1000 + 7 * dayMs]

\* The effects that run after the render of state c, which followed the render
\* of state p: each effect whose dependencies differ between the two runs on
\* the values of c, and their updates make the next render.
LockEffects(p, c) ==
    LET dLock == <<p.veNationLock, p.ref>> # <<c.veNationLock, c.ref>>
        dHas  == p.hasLock # c.hasLock
        dIn   == <<p.lockAmount, p.lockTime>> # <<c.lockAmount, c.lockTime>>
        has   == c.hasLock = "true" /\ c.veNationLock # <<>>
        runLock == dLock /\ ~c.veNationLockLoading
        runInit == (dHas \/ dLock) /\ has
        runCan  == (dHas \/ dIn \/ dLock) /\ has
    IN  [c EXCEPT
            !.hasLock     = IF runLock THEN setHasLock(c) ELSE @,
            !.hasExpired  = IF runLock THEN setHasExpired(c) ELSE @,
            !.lockAmount  = IF runInit THEN setLockAmount(c) ELSE @,
            !.lockTime    = IF runInit THEN setLockTime(c) ELSE @,
            !.lockTimeOrig = IF runInit THEN <<setLockTime(c)>> ELSE @,
            !.canIncrease = IF runCan THEN setCanIncrease(c) ELSE @]

\* Renders and effects alternate until an effect pass changes nothing.
RECURSIVE Rendered(_, _)
Rendered(p, c) ==
    LET n == LockEffects(p, c) IN IF n = c THEN c ELSE Rendered(c, n)

\* useVeNationLock delivers the record of the chain; `fresh` when it does so in
\* a new object.
veNationLockLoaded(fresh) ==
    /\ page.name = "lock"
    /\ page' = Rendered(page,
                 [page EXCEPT !.veNationLockLoading = FALSE,
                              !.veNationLock = page.chainLock,
                              !.ref = IF fresh THEN 1 - @ ELSE @])
    /\ UNCHANGED chainVars

\* Lines 322-335: the amount input and the Max button, shown while the lock
\* has not expired; an empty input is <<>>.
onChangeLockAmount(v) ==
    /\ page.name = "lock"
    /\ page.hasExpired # "true"
    /\ page' = Rendered(page, [page EXCEPT !.lockAmount = v])
    /\ UNCHANGED chainVars

\* Lines 352-363: the date input; d = 0 is the cleared input, which falls back
\* to lockTime.orig.value and throws when there is no lockTime.orig.
onChangeLockTime(d) ==
    /\ page.name = "lock"
    /\ page.hasExpired # "true"
    /\ d = 0 => page.lockTimeOrig # <<>>
    /\ page' = Rendered(page,
                 [page EXCEPT !.lockTime = IF d = 0 THEN page.lockTimeOrig[1]
                                           ELSE d * dayMs])
    /\ UNCHANGED chainVars

\* A transaction, of this page or of another, changes the record on chain.
lockChanged(r) ==
    /\ page.name = "lock"
    /\ r # page.chainLock
    /\ page' = [page EXCEPT !.chainLock = r]
    /\ UNCHANGED chainVars

\* What the render of lines 298-450 offers: the Withdraw button when
\* hasExpired, else the form whose button calls increaseLock when hasLock and
\* createLock otherwise (lines 402-436).
LockOffered ==
    IF page.hasExpired = "true" THEN "withdraw"
    ELSE IF page.hasLock = "true" THEN "increaseLock"
    ELSE "createLock"

\* Lines 403-407: the button carries btn-disabled.
btnDisabled == ~(page.canIncrease.amount \/ page.canIncrease.time)

NextLock ==
    \/ \E fresh \in BOOLEAN : veNationLockLoaded(fresh)
    \/ \E v \in {<<>>} \cup {<<a>> : a \in Balances} : onChangeLockAmount(v)
    \/ \E d \in Dates \cup {0} : onChangeLockTime(d)
    \/ \E r \in LockRecords : lockChanged(r)
    \/ Tick

SpecLock == InitLock /\ [][NextLock]_vars

\* =================================================== the decayed balance
\* calculateVeNation and calculateVestingStart, lines 49-76 of
\* ui/pages/lock.tsx.  Amounts are counted in thousandths of a token and times
\* in years; a quotient is kept as numerator and denominator, so the arithmetic
\* is exact where JavaScript's is in doubles.
MaxYears == 5

\* Line 74: 31556926000 * 4 milliseconds, here in years.
fourYears == 4

Years == 0 .. MaxYears

Amounts == {0, 500, 1000, 1004, 2000}

\* The same with half of the four years.
calculateVestingStart_twoYears(nationAmount, veNationAmount, lockTime) ==
    [num |-> lockTime * nationAmount - veNationAmount * 2,
     den |-> nationAmount]

\* The same without the share of the four years.
calculateVestingStart_noRatio(nationAmount, veNationAmount, lockTime) ==
    [num |-> lockTime * nationAmount, den |-> nationAmount]

\* Lines 69-76: lockTime - (veNationAmount / nationAmount) * fourYears, over the
\* denominator nationAmount.
calculateVestingStart(nationAmount, veNationAmount, lockTime) ==
    [num |-> lockTime * nationAmount - veNationAmount * fourYears,
     den |-> nationAmount]

\* The nearest integer to a / b for a >= 0 and b > 0, the larger one of two.
roundDiv(a, b) == (a \div b) + (IF 2 * (a % b) >= b THEN 1 ELSE 0)

\* Number.prototype.toFixed(digits) of a / b thousandths of a token, b > 0 and
\* digits 2 or 8: the decimal string with that many digits after the point,
\* kept as its sign and its count of 10^-digits.
toFixed(a, b, digits) ==
    LET abs == IF a < 0 THEN 0 - a ELSE a
        count == IF digits = 2 THEN roundDiv(abs, b * 10)
                 ELSE (abs \div b) * 100000 + roundDiv((abs % b) * 100000, b)
    IN  [kind |-> "string", digits |-> digits,
         count |-> IF a < 0 THEN 0 - count ELSE count]

\* Lines 49-67.  Line 57 returns the number 0 for a falsy nationAmount; a zero
\* denominator on line 64 makes NaN or an infinity, which toFixed prints as such.
calculateVeNation(nationAmount, veNationAmount, time, lockTime, max) ==
    IF nationAmount = 0 THEN [kind |-> "number", digits |-> 0, count |-> 0]
    ELSE
        LET vestingStart ==
                calculateVestingStart(nationAmount, veNationAmount, lockTime)
            pn == time * vestingStart.den - vestingStart.num
            pd == max * vestingStart.den - vestingStart.num
            a == IF pd < 0 THEN 0 - nationAmount * pn ELSE nationAmount * pn
            b == IF pd < 0 THEN 0 - pd ELSE pd
        IN  IF pd = 0
            THEN [kind |-> IF pn = 0 THEN "NaN" ELSE "Infinity",
                  digits |-> 0, count |-> 0]
            ELSE toFixed(a, b, IF a > 1000 * b THEN 2 ELSE 8)

\* The arguments of lines 381-396: any amounts and any times, with the lock
\* ending within the horizon.
InitVeNation ==
    /\ Deployed
    /\ \E n \in Amounts, v \in Amounts, t \in Years, l \in Years, m \in Years :
        /\ l <= m
        /\ page = [name |-> "veNation", called |-> FALSE,
                   nationAmount |-> n, veNationAmount |-> v,
                   time |-> t, lockTime |-> l, max |-> m,
                   result |-> [kind |-> "none", digits |-> 0, count |-> 0]]

\* Lines 381-396: the page renders the projected balance.
projectBalance ==
    /\ page.name = "veNation"
    /\ ~page.called
    /\ page' = [page EXCEPT
                   !.called = TRUE,
                   !.result = calculateVeNation(page.nationAmount,
                                  page.veNationAmount, page.time,
                                  page.lockTime, page.max)]
    /\ UNCHANGED chainVars

NextVeNation == projectBalance

SpecVeNation == InitVeNation /\ [][NextVeNation]_vars

\* ================================================================== claims
\* The spec's names for the revert reasons.
Unauthorized == "CallerIsNotAuthorized"
InvalidFrom == "InvalidFrom"
NotMinted == "NOT_MINTED"

GatedOps == {"mint", "safeMint", "burn", "transferFrom", "safeTransferFrom"}

\* The credential state the claims speak of.
CredentialLedger ==
    <<_ownerOf, _balanceOf, getApproved, isApprovedForAll, _supply, _idTracker>>

SnapshotLedger ==
    <<pending.snap.ownerOf, pending.snap.balanceOf, pending.snap.approved,
      pending.snap.operators, pending.snap.supply, pending.snap.idTracker>>

\* This step is the return of a successful mint or safeMint.
MintReturned == last' # last /\ last'.op \in {"mint", "safeMint"} /\ last'.err = "none"

\* This step is the revert of a safe call whose receiver hook was running.
OuterReverted == pending.op # "none" /\ pending'.op = "none" /\ last'.err # "none"

\* The caller is the controller, the recorded owner of id, an operator of that
\* owner, or the per-token approved address of id.
Authorized(s, i) ==
    \/ s = controller
    \/ s = _ownerOf[i]
    \/ <<_ownerOf[i], s>> \in isApprovedForAll
    \/ s = getApproved[i]

\* C1, as claimed: between calls, totalSupply() is the number of ids that
\* currently have an owner (ids minted minus ids burned).
C1_SupplyCountsOwnedIds ==
    TopLevel => totalSupply = Cardinality({i \in Ids : _ownerOf[i] # Zero})

\* C2: getNextId grows by exactly 1 on each successful mint or safeMint and the
\* id returned was never returned before; no other call changes it, burn
\* included; a reverted safe call puts it back to its value at the call's start
\* (the calls made inside it are reverted with it).
C2_NextIdCountsMints ==
    [][IF MintReturned
       THEN /\ getNextId' = getNextId + 1
            /\ last'.ret = getNextId
            /\ last'.ret \notin mintedIds
       ELSE IF OuterReverted
       THEN getNextId' = pending.snap.idTracker /\ getNextId' <= getNextId
       ELSE getNextId' = getNextId]_vars

\* C2's case: id 0 was minted and burned, and the next mint returned id 1.
C2_Witness ==
    /\ last.op = "mint" /\ last.err = "none" /\ last.ret = 1
    /\ 0 \in mintedIds /\ _ownerOf[0] = Zero
    /\ getNextId = 2

\* C3, as claimed: a successful mint(to) returns the id that was nextId, makes
\* `to` its owner, and leaves nextId and totalSupply each one larger.
C3_MintEffects ==
    [][(last' # last /\ last'.op = "mint" /\ last'.err = "none") =>
            /\ last'.ret = getNextId
            /\ _ownerOf'[last'.ret] = last'.to
            /\ getNextId' = getNextId + 1
            /\ totalSupply' = totalSupply + 1]_vars

C6_InvalidFromUnlessOwner ==
    \A f \in Address, t \in Address, i \in Ids :
        (_ownerOf[i] = Zero \/ f # _ownerOf[i]) =>
            transferFromErr(controller, f, t, i) = InvalidFrom

\* C7, as claimed: once burn(id) has succeeded, an ownerOf, transferFrom or burn
\* that follows does not give the burned id an owner again.
C7_BurnedStaysUnowned ==
    [][(/\ last.op = "burn" /\ last.err = "none"
        /\ last' # last
        /\ last'.op \in {"ownerOf", "transferFrom", "burn"})
            => _ownerOf'[last.id] = Zero]_vars

\* C8, as claimed: a successful mint or safeMint records the block time as
\* timestamps[id] of the id it minted.
C8_MintRecordsTimestamp ==
    [][MintReturned => timestamps'[last'.id] = now]_vars

\* C9: a failing mint, safeMint, burn, transferFrom or safeTransferFrom leaves
\* owners, balances, approvals, totalSupply and nextId as they were when the
\* call started; and a transferFrom by an account that is authorized for no
\* token fails with Unauthorized.
C9_FailedCallChangesNothing ==
    [][/\ (last' # last /\ last'.op \in GatedOps /\ last'.err # "none") =>
            IF OuterReverted THEN CredentialLedger' = SnapshotLedger
            ELSE UNCHANGED CredentialLedger
       /\ (/\ last' # last /\ last'.op = "transferFrom"
           /\ \A i \in Ids : ~Authorized(last'.sender, i))
            => last'.err = Unauthorized]_vars

\* C9's case: a safeMint was refused by the receiver's hook and has reverted,
\* in a ledger that held one token minted before it.
C9_Witness ==
    /\ last.op = "safeMint" /\ last.err = "UNSAFE_RECIPIENT"
    /\ pending.op = "none"
    /\ _supply = 1 /\ _idTracker = 1 /\ _ownerOf[0] # Zero

\* C10, as claimed: the receiver hook sees the ledger as it is after the safe
\* call: when the hook has returned and the call succeeds, nothing is written.
C10_NothingWrittenAfterHook ==
    [][(pending.op # "none" /\ pending'.op = "none" /\ last'.err = "none")
            => UNCHANGED ledgerVars]_vars

\* This step is the return of a successful transferFrom / burn.
TransferReturned == last' # last /\ last'.op = "transferFrom" /\ last'.err = "none"

BurnReturned == last' # last /\ last'.op = "burn" /\ last'.err = "none"

\* C11, as claimed: a successful transferFrom(from, to, id) takes 1 from the
\* balance of `from` and adds 1 to the balance of `to`, makes `to` the owner of
\* id, clears the per-token approval of id, and leaves totalSupply, nextId and
\* the owner and approval of every other id as they were.
C11_TransferEffects ==
    [][TransferReturned =>
        LET f == last'.from
            t == last'.to
            i == last'.id
        IN  /\ _balanceOf' = IF f = t THEN _balanceOf
                             ELSE [_balanceOf EXCEPT ![f] = @ - 1, ![t] = @ + 1]
            /\ _ownerOf' = [_ownerOf EXCEPT ![i] = t]
            /\ getApproved' = [getApproved EXCEPT ![i] = Zero]
            /\ totalSupply' = totalSupply
            /\ getNextId' = getNextId]_vars

\* C12, as claimed: burn(id) by the controller fails with NotMinted when id has
\* no owner; a successful burn clears the owner and the per-token approval of
\* id, takes 1 from totalSupply and 1 from the former owner's balance, and
\* leaves nextId and every other token as they were.
C12_BurnEffects ==
    /\ [](\A i \in Ids : _ownerOf[i] = Zero => burnErr(controller, i) = NotMinted)
    /\ [][BurnReturned =>
            LET o == last'.from
                i == last'.id
            IN  /\ o = _ownerOf[i]
                /\ _ownerOf' = [_ownerOf EXCEPT ![i] = Zero]
                /\ getApproved' = [getApproved EXCEPT ![i] = Zero]
                /\ totalSupply' = totalSupply - 1
                /\ _balanceOf' = [_balanceOf EXCEPT ![o] = @ - 1]
                /\ getNextId' = getNextId]_vars

\* safeMint(to) for a recipient without code, lines 146-152: the modifier and
\* the requires of _safeMint (those of _mint), then the checked increments.
safeMintErr(sender, to) ==
    IF mintErr(sender, to) # "none" THEN mintErr(sender, to) ELSE safeMintCountersErr

\* The storage mint(to) leaves when it succeeds on storage L, lines 133-140.
mintLedger(L, to) ==
    [L EXCEPT !.ownerOf[L.idTracker] = to,
              !.balanceOf[to] = uncheckedInc(@),
              !.idTracker = uncheckedInc(@),
              !.supply = uncheckedInc(@)]

\* The storage transferFrom(from, to, id) leaves when it succeeds on storage L,
\* lines 92-99.
transferLedger(L, from, to, id) ==
    [L EXCEPT !.balanceOf = [[@ EXCEPT ![from] = uncheckedDec(@)]
                                EXCEPT ![to] = uncheckedInc(@)],
              !.ownerOf[id] = to,
              !.approved[id] = Zero]

\* This step is the return, accepted or refused, of a receiver hook that made
\* no call of its own back into the Passport.
HookReturned == pending.op # "none" /\ pending.n = 0 /\ pending'.op = "none"

\* C13, as claimed: for a recipient that has no code or accepts, safeMint and
\* safeTransferFrom fail in the cases in which mint and transferFrom fail and
\* leave the storage mint and transferFrom leave; for a recipient that refuses
\* they fail with UnsafeRecipient and leave the storage as it was.
C13_SafeVariantsAgree ==
    /\ [](TopLevel =>
            \A s \in Accounts, f \in Address, t \in Address \ Contracts, i \in Ids :
                /\ (safeMintErr(s, t) = "none") = (mintErr(s, t) = "none")
                /\ (safeTransferFromErr(s, f, t, i) = "none")
                        = (transferFromErr(s, f, t, i) = "none"))
    /\ [][/\ (TopLevel /\ last' # last /\ last'.err = "none" /\ last'.op = "safeMint")
                => Ledger' = mintLedger(Ledger, last'.to)
          /\ (TopLevel /\ last' # last /\ last'.err = "none"
                /\ last'.op = "safeTransferFrom")
                => Ledger' = transferLedger(Ledger, last'.from, last'.to, last'.id)
          /\ (HookReturned /\ last'.err = "none" /\ last'.op = "safeMint")
                => Ledger' = mintLedger(pending.snap, last'.to)
          /\ (HookReturned /\ last'.err = "none" /\ last'.op = "safeTransferFrom")
                => /\ Ledger' = transferLedger(pending.snap, last'.from, last'.to,
                                               last'.id)
                   /\ pending.snap.ownerOf[last'.id] = last'.from
          /\ (HookReturned /\ last'.err = "UNSAFE_RECIPIENT")
                => Ledger' = pending.snap]_vars

\* C14: in every state, transferFrom(from, to, id) called by the controller with
\* `from` the current owner of id and `to` not the zero address succeeds, be the
\* controller the owner, an operator, the approved address of id or none of
\* them; and when it has returned, `to` owns id.
C14_ControllerAlwaysAuthorized ==
    /\ [](\A f \in Accounts, t \in Accounts, i \in Ids :
            f = _ownerOf[i] => transferFromErr(controller, f, t, i) = "none")
    /\ [][(TransferReturned /\ last'.sender = controller)
            => _ownerOf'[last'.id] = last'.to]_vars

\* C14's case: the controller has just moved a token of which it was neither
\* the owner nor an operator of the owner (nor, no approval being ever given to
\* the deployer, the approved address).
C14_Witness ==
    /\ last.op = "transferFrom" /\ last.err = "none"
    /\ last.sender = controller /\ last.sender = Deployer
    /\ last.from \in Accounts \ {last.sender}
    /\ <<last.from, last.sender>> \notin isApprovedForAll
    /\ _ownerOf[last.id] = last.to

\* The credential state C15 speaks of.
CredentialState ==
    <<_ownerOf, _balanceOf, getApproved, isApprovedForAll, timestamps, _supply,
      _idTracker>>

\* C15: setRenderer and recoverTokens fail for every caller but the contract
\* owner, a controller that is not the owner included; when one of them has
\* succeeded its caller was the owner; and, failing or not, they leave the
\* owners, balances, approvals, mint timestamps, totalSupply and nextId alone.
C15_OwnerOnlyAdmin ==
    /\ [](\A s \in Accounts \ {owner}, a \in 0 .. MaxAmount :
            /\ setRendererErr(s) = Unauthorized
            /\ recoverTokensErr(s, a) = Unauthorized)
    /\ [][(last' # last /\ last'.op \in {"setRenderer", "recoverTokens"})
            => /\ UNCHANGED CredentialState
               /\ last'.err = "none" => last'.sender = owner]_vars

\* C15's case: tokens are owned and approved, the controller is not the owner,
\* the Passport holds foreign tokens, and the controller's recoverTokens has
\* just failed.
C15_Witness ==
    /\ last.op = "recoverTokens" /\ last.err = Unauthorized
    /\ last.sender = controller /\ controller # owner
    /\ erc20Held > 0
    /\ \E i \in Ids : _ownerOf[i] # Zero /\ getApproved[i] # Zero

\* C16, as claimed, for a page that has loaded both balances: with a veNATION
\* balance below veNationRequiredStake the Join page does not offer Claim.
C16_ClaimOnlyWhenEligible ==
    (/\ page.name = "join"
     /\ page.nationLoaded /\ page.veNationLoaded
     /\ page.veNationBalance < veNationRequiredStake)
        => JoinOffered # "Claim"

\* The page shows what the chain holds: the record has been delivered and has
\* not changed since.
LockShown == page.name = "lock" /\ page.veNationLock = page.chainLock

\* C17, as claimed, for a page that shows the lock of the chain: createLock is
\* offered only when amount = 0, increaseLock only when the lock is Active
\* (amount > 0 and now < maturity), withdraw only when it is Expired
\* (maturity # 0 and now >= maturity).
C17_ActionMatchesLockState ==
    LockShown =>
        LET amount   == page.chainLock[1]
            maturity == page.chainLock[2]
        IN  /\ LockOffered = "createLock" => amount = 0
            /\ LockOffered = "increaseLock" =>
                   amount > 0 /\ nowMs < maturity * 1000
            /\ LockOffered = "withdraw" =>
                   maturity # 0 /\ nowMs >= maturity * 1000

\* The form offers increaseLock on a delivered lock record.
IncreaseOffered ==
    page.name = "lock" /\ page.veNationLock # <<>> /\ LockOffered = "increaseLock"

\* The entered amount is the locked amount and the entered maturity is the
\* lock's: as the page pre-fills it (in seconds, line 124) or as the date input
\* gives the same instant (in milliseconds, line 359).
EnteredIsLocked ==
    /\ page.lockAmount = <<page.veNationLock[1]>>
    /\ \/ page.lockTime = page.veNationLock[2]
       \/ page.lockTime = page.veNationLock[2] * 1000

ValidLock ==
    /\ page.name = "veNation" /\ page.called
    /\ page.nationAmount > 0
    /\ page.max * page.nationAmount #
           page.lockTime * page.nationAmount - page.veNationAmount * fourYears

\* The evaluation time is the vesting start lockTime - (veNationAmount /
\* nationAmount) * fourYears.
AtVestingStart ==
    page.time * page.nationAmount =
        page.lockTime * page.nationAmount - page.veNationAmount * fourYears

AtHorizon == page.time = page.max

\* The result is the amount x, counted in thousandths.
ResultIs(x) ==
    IF page.result.digits = 2 THEN page.result.count * 10 = x
    ELSE page.result.count = x * 100000

\* C19, as claimed: the decayed balance of a valid lock is 0 at vestingStart
\* and is the lock's amount at the horizon.
C19_DecayEndpointsExact ==
    ValidLock =>
        /\ AtVestingStart => ResultIs(0)
        /\ AtHorizon => ResultIs(page.nationAmount)

\* C19, amended: the decayed balance of a valid lock is 0 at vestingStart, and
\* at the horizon it is the lock's amount as toFixed prints it, to two decimals
\* when the amount exceeds 1 and to eight otherwise.
C19_DecayEndpoints ==
    ValidLock =>
        /\ AtVestingStart => ResultIs(0)
        /\ AtHorizon =>
               page.result = toFixed(page.nationAmount, 1,
                                     IF page.nationAmount > 1000 THEN 2 ELSE 8)

\* A lock of 1.004 evaluated at its horizon, after its vesting start.
C19_Witness ==
    /\ ValidLock /\ AtHorizon /\ ~AtVestingStart
    /\ page.nationAmount = 1004 /\ page.veNationAmount > 0
    /\ page.result = [kind |-> "string", digits |-> 2, count |-> 100]

\* C20, as claimed: for every amount > 0, current balance, lock time, evaluation
\* time and horizon, the decayed balance that the formula gives, when it gives
\* a number at all, is neither negative nor greater than the lock's amount.
C20_DecayClamped ==
    (/\ page.name = "veNation" /\ page.called /\ page.nationAmount > 0
     /\ page.result.kind = "string") =>
        /\ page.result.count >= 0
        /\ IF page.result.digits = 2
           THEN page.result.count * 10 <= page.nationAmount
           ELSE page.result.count <= page.nationAmount * 100000

\* A lock of amount 1000 (in the unit amounts are counted in) made for the full
\* four years: it matures fourYears after its creation T0 = lockTime -
\* fourYears, its horizon is its maturity and its balance is its amount.
FullLock ==
    /\ page.name = "veNation" /\ page.called
    /\ page.nationAmount = 1000 /\ page.veNationAmount = 1000
    /\ page.lockTime >= fourYears /\ page.max = page.lockTime

T0 == page.lockTime - fourYears

C22_NoDivisionByZero ==
    (page.name = "veNation" /\ page.called) =>
        /\ page.nationAmount = 0 =>
               page.result = [kind |-> "number", digits |-> 0, count |-> 0]
        /\ page.nationAmount > 0 => page.result.kind = "string"

\* C23, as claimed: whenever burn(id) succeeds totalSupply was at least 1 before
\* the call, so the unchecked decrement of line 161 never wraps totalSupply
\* round to the largest value of its type.
C23_BurnNeverWraps ==
    [][BurnReturned => totalSupply >= 1 /\ totalSupply' # Mod - 1]_vars

\* C24, as claimed: between calls the id getNextId has no owner, so mint(to) by
\* the controller succeeds for every recipient other than address(0).
C24_MintNeverBlocked ==
    (TopLevel /\ getNextId \in Ids) =>
        /\ _ownerOf[getNextId] = Zero
        /\ \A to \in Accounts : mintErr(controller, to) = "none"

\* The ids an account owns; address(0) owns none.
OwnedBy(a) == IF a = Zero THEN {} ELSE {i \in Ids : _ownerOf[i] = a}

\* The sum of the recorded balances of the accounts in S.
RECURSIVE SumBalances(_)
SumBalances(S) ==
    IF S = {} THEN 0
    ELSE LET a == CHOOSE x \in S : TRUE
         IN  _balanceOf[a] + SumBalances(S \ {a})

\* C25, as claimed: between calls the recorded balance of every account,
\* address(0) included, is the number of ids it owns, and the balances sum to
\* totalSupply.
C25_BalancesCountOwnedIds ==
    TopLevel =>
        /\ \A a \in Address : _balanceOf[a] = Cardinality(OwnedBy(a))
        /\ SumBalances(Address) = totalSupply

====
